---- MODULE Spec2Model ----
(***************************************************************************)
(* Ledger engine of backend/app/services/banking_service.py.               *)
(*                                                                         *)
(* A BankingService works on one SQLAlchemy Session.  The calls of         *)
(* different sessions interleave at their database statements: a SELECT    *)
(* (get_account), a commit, a refresh, a rollback.  The store keeps the    *)
(* committed rows.  A session keeps the objects it has loaded in its       *)
(* identity map, with the attributes it has changed and not yet flushed.   *)
(* The map refers to its objects weakly: an object stays in it while the   *)
(* running call or the caller of the service refers to it.  The session    *)
(* factory sets expire_on_commit=False (db/session.py:45), so a commit     *)
(* leaves the objects loaded as they are; a rollback expires them: an      *)
(* expired object that is still referred to stays in the map and is filled *)
(* again by the next SELECT of its row.  The service takes no lock:        *)
(* get_account is a plain SELECT.                                          *)
(*                                                                         *)
(* Three statements of the service name things the models do not have:     *)
(*   - _create_transaction builds Transaction(account_id=, reference=,     *)
(*     balance_after=) (455-463); models/transaction.py:26-42 has none of  *)
(*     these columns, so the constructor raises TypeError;                 *)
(*   - _generate_account_number names AccountType.CREDIT and               *)
(*     AccountType.INVESTMENT (109-114); models/account.py:13-17 has no    *)
(*     such members, so building the dict raises AttributeError;           *)
(*   - get_account_summary and get_transaction_history filter on           *)
(*     Transaction.account_id (535, 491), which raises AttributeError.     *)
(* So no call of the service inserts an account or a transaction row: the  *)
(* rows it works on are the rows of the tables as it finds them.           *)
(***************************************************************************)
EXTENDS Integers, Sequences, FiniteSets, TLC

\* ---------------------------------------------------------------- bounds
NumSessions == 2
MaxAccounts == 2
MaxAmount == 1
MaxOps == 3
\* the balance of a stored account that holds money
SeedBalance == 1

Sessions == 1..NumSessions
AccountIds == 1..MaxAccounts
\* requested amounts; 0 is the non-positive request
Amounts == 0..MaxAmount
\* user 1 exists (the User table is owned by the auth layer), user 2 does not
Users == {1}
UserIds == {1, 2}
\* the values of the members of AccountType
AccountTypes == {"savings", "checking", "fixed_deposit"}
\* the members of AccountType, and the members type_codes is built from
AccountTypeMembers == {"SAVINGS", "CHECKING", "FIXED_DEPOSIT"}
TypeCodeMembers == {"CHECKING", "SAVINGS", "CREDIT", "INVESTMENT"}
Currencies == {"USD", "EUR"}
\* the accounts a caller asks create_account for: account type and currency
CreateRequests == {<<"savings", "USD">>, <<"checking", "EUR">>}
\* the account numbers a caller asks for: those of the stored accounts
AccountNumbers == 1..MaxAccounts
\* a caller of deposit supplies no reference (None) or one, here the reference
\* number of the first stored deposit; withdraw and transfer are called
\* without one
NoRef == "None"
SuppliedReferences == {NoRef, "D1"}
\* get_balance has returned nothing yet
NoBalance == -1
\* the columns of Transaction, and the keywords _create_transaction passes
TransactionColumns == {"id", "transaction_type", "amount", "currency", "status",
                       "from_account_id", "to_account_id", "description",
                       "reference_number", "created_at", "completed_at"}
TransactionKeywords == {"account_id", "transaction_type", "amount", "description",
                        "status", "reference", "balance_after"}
\* the attributes of Transaction the service filters on
TransactionFilters == {"account_id", "transaction_type", "status"}

VARIABLES
    accounts,   \* committed Account rows, indexed by id
    ledger,     \* committed Transaction rows, in insertion order
    pc,         \* per session: where its current call stands
    op,         \* per session: the arguments of its current call
    cache,      \* per session: the Account objects loaded in its identity map
    result,     \* per session: outcome of its last finished call
    ret,        \* per session: the balance its last get_balance returned
    started     \* number of calls started so far

vars == <<accounts, ledger, pc, op, cache, result, ret, started>>

\* ---------------------------------------------------------------- records
\* no call yet; `at` is the position at which the last call ended
NoOp == [kind |-> "none", account_id |-> 0, to_account_id |-> 0, amount |-> 0,
         reference |-> NoRef, user_id |-> 0, account_number |-> 0,
         active_only |-> FALSE, at |-> "none"]

\* an object the session does not hold: `held` says that the identity map
\* holds an object of the row, `loaded` that its attributes are loaded
Unloaded == [held |-> FALSE, loaded |-> FALSE, balance |-> 0, is_active |-> FALSE,
             updated_at |-> 0, changed |-> {}]

\* an object the session holds whose attributes a rollback has expired
Expired == [Unloaded EXCEPT !.held = TRUE]

EmptyCache == [a \in AccountIds |-> Unloaded]

\* a row of the transaction table, with the columns of the model that matter
Transaction(transaction_type, amount, status, from_account_id, to_account_id, reference_number) ==
    [transaction_type |-> transaction_type, amount |-> amount, status |-> status,
     from_account_id |-> from_account_id, to_account_id |-> to_account_id,
     reference_number |-> reference_number]

\* a row of the account table
Account(user_id, account_number, account_type, balance, currency, is_active, updated_at) ==
    [user_id |-> user_id, account_number |-> account_number,
     account_type |-> account_type, balance |-> balance,
     currency |-> currency, is_active |-> is_active, updated_at |-> updated_at]

\* the keywords the declarative constructor of Transaction refuses (TypeError)
InvalidKeywords == TransactionKeywords \ TransactionColumns

\* the members type_codes names that AccountType lacks (AttributeError)
MissingMembers == TypeCodeMembers \ AccountTypeMembers

\* the attributes the queries name that Transaction lacks (AttributeError)
MissingAttributes == TransactionFilters \ TransactionColumns

\* the exception class that reaches the caller for an outcome: every check of
\* the service raises ValueError, any other exception is re-raised as it is
ErrorClass(kind) ==
    IF kind \in {"ok", "none"} THEN "None"
    ELSE IF kind = "fault" THEN "Exception"
    ELSE "ValueError"

Exists(a) == a \in 1..Len(accounts)

\* the Account row as a session loads it
Load(a) == [held |-> TRUE, loaded |-> TRUE, balance |-> accounts[a].balance,
            is_active |-> accounts[a].is_active,
            updated_at |-> accounts[a].updated_at, changed |-> {}]

\* the query of get_account on a Session shared by all requests: the object
\* another request has loaded and changed is returned
QueryShared(s, a) ==
    IF cache[s][a].loaded THEN cache[s][a]
    ELSE IF \E t \in Sessions : cache[t][a].loaded
         THEN cache[CHOOSE t \in Sessions : cache[t][a].loaded][a]
    ELSE IF Exists(a) THEN Load(a)
    ELSE Unloaded

\* line 139, query(Account).filter(Account.id == account_id).first(): the
\* object of the identity map when the session holds one that is loaded (a
\* query does not refresh a loaded object), else the committed row, which
\* also fills an expired object again, else None
Query(s, a) ==
    IF cache[s][a].loaded THEN cache[s][a]
    ELSE IF Exists(a) THEN Load(a)
    ELSE Unloaded

\* the accounts whose rows session s has locked: get_account is a plain SELECT
\* (no with_for_update) and no call takes any other lock
LockedAccounts(s) == {}

\* the identity map after get_account(a)
Loaded(s, a) == [cache[s] EXCEPT ![a] = Query(s, a)]

\* the identity maps a call may leave behind: of the objects it has touched,
\* those the caller does not refer to (through a returned Account, or through
\* the frame of a raised exception) are gone, the others stay as they are
StillReferenced(map, touched) ==
    { [a \in AccountIds |-> IF a \in dropped THEN Unloaded ELSE map[a]] :
          dropped \in SUBSET touched }

\* object.attribute = value: the attribute counts as changed when the value differs
SetBalance(account, balance) ==
    [account EXCEPT !.balance = balance,
                    !.changed = IF balance = account.balance THEN @
                                ELSE @ \cup {"balance"}]

SetActive(account, is_active) ==
    [account EXCEPT !.is_active = is_active,
                    !.changed = IF is_active = account.is_active THEN @
                                ELSE @ \cup {"is_active"}]

RECURSIVE LatestUpdate(_)
\* the latest updated_at of the account rows `rows`
LatestUpdate(rows) ==
    IF rows = <<>> THEN 0
    ELSE LET rest == LatestUpdate(Tail(rows))
         IN  IF Head(rows).updated_at > rest THEN Head(rows).updated_at ELSE rest

\* datetime.utcnow(): the clock reads a time later than every stored timestamp
UtcNow == LatestUpdate(accounts) + 1

\* account.updated_at = datetime.utcnow()
SetUpdatedAt(account) ==
    [account EXCEPT !.updated_at = UtcNow, !.changed = @ \cup {"updated_at"}]

\* ---------------------------------------------------------------- stores
\* the rows an account table may hold: a row is active or has balance 0
\* (close_account, line 587), and holds no money or SeedBalance; account 1 is
\* a USD account, which may have been closed; account 2 is active, and holds
\* money when it is in another currency
StoredStates(a) ==
    {st \in [balance : {0, SeedBalance}, is_active : BOOLEAN, currency : Currencies] :
        a \in AccountIds =>
            /\ st.is_active \/ st.balance = 0
            /\ a = 1 => st.currency = "USD"
            /\ a # 1 => st.is_active
            /\ st.currency # "USD" => st.balance > 0}

\* the account tables the service may find: account a has account number a
\* (the column is unique, models/account.py:23) and belongs to user 1
Stores ==
    UNION { { [a \in 1..n |-> Account(1, a, "savings", st[a].balance,
                                      st[a].currency, st[a].is_active, 0)] :
              st \in {t \in [1..n -> StoredStates(0)] :
                          \A a \in 1..n : t[a] \in StoredStates(a)} } :
            n \in 0..MaxAccounts }

\* reference numbers of the stored rows (unique, models/transaction.py:39)
DepositReferences == <<"D1", "D2", "D3">>
WithdrawalReferences == <<"W1", "W2", "W3">>

\* withdrawals of account 1 that did not complete: one row of each other
\* member of TransactionStatus (pending is the default of the column,
\* models/transaction.py:33)
Unfinished ==
    <<Transaction("withdrawal", SeedBalance, "pending", 1, 0, "P1"),
      Transaction("withdrawal", SeedBalance, "failed", 1, 0, "F1"),
      Transaction("withdrawal", SeedBalance, "cancelled", 1, 0, "X1")>>

\* the transaction table beside an account table: each account has taken one
\* completed deposit of SeedBalance, and an account that holds no money has
\* given it out again in one completed withdrawal; account 1 also has its
\* withdrawals that did not complete
RECURSIVE Backing(_, _)
Backing(table, n) ==
    IF n = 0 THEN <<>>
    ELSE LET deposit == Transaction("deposit", SeedBalance, "completed", 0, n,
                                    DepositReferences[n])
             withdrawal == Transaction("withdrawal", SeedBalance, "completed", n, 0,
                                       WithdrawalReferences[n])
             rows == IF table[n].balance > 0 THEN <<deposit>>
                     ELSE <<deposit, withdrawal>>
         IN  IF n = 1 THEN rows \o Unfinished
             ELSE Backing(table, n - 1) \o rows

\* every session is fresh and no call has been made
Fresh ==
    /\ pc = [s \in Sessions |-> "idle"]
    /\ op = [s \in Sessions |-> NoOp]
    /\ cache = [s \in Sessions |-> EmptyCache]
    /\ result = [s \in Sessions |-> "none"]
    /\ ret = [s \in Sessions |-> NoBalance]
    /\ started = 0

Init ==
    /\ accounts \in Stores
    /\ ledger = Backing(accounts, Len(accounts))
    /\ Fresh

\* the store of two active USD accounts that hold SeedBalance each
FundedPair ==
    /\ accounts = [a \in 1..2 |-> Account(1, a, "savings", SeedBalance, "USD", TRUE, 0)]
    /\ ledger = Backing(accounts, Len(accounts))
    /\ Fresh

\* ---------------------------------------------------------------- session
\* a call may start on an idle session
CanStart(s) == pc[s] = "idle" /\ started < MaxOps

\* the call raises outside a try block: nothing is rolled back, and the
\* objects the call has read stay in the identity map while the caller
\* refers to them
Reject(s, call, kind, newcache, touched) ==
    /\ result' = [result EXCEPT ![s] = kind]
    /\ op' = [op EXCEPT ![s] = [call EXCEPT !.at = "check"]]
    /\ \E held \in StillReferenced(newcache, touched) :
          cache' = [cache EXCEPT ![s] = held]
    /\ started' = started + 1
    /\ UNCHANGED <<accounts, ledger, pc, ret>>

\* the Accounts a call with the arguments `call` works on
Touched(call) == {call.account_id, call.to_account_id} \cap AccountIds

\* the identity map after a rollback: every object the session holds is expired
ExpiredAll(s) == [a \in AccountIds |-> IF cache[s][a].held THEN Expired ELSE Unloaded]

\* db.rollback(); raise: the session's unflushed changes are discarded and
\* every object it holds expires; the objects of the call stay in the
\* identity map, expired, while the caller refers to them
Rollback(s) ==
    /\ \E held \in StillReferenced(ExpiredAll(s), Touched(op[s])) :
          cache' = [cache EXCEPT ![s] = held]
    /\ UNCHANGED <<accounts, ledger>>

\* the call ends: it returns (kind "ok") or raises
Finish(s, kind) ==
    /\ result' = [result EXCEPT ![s] = kind]
    /\ pc' = [pc EXCEPT ![s] = "idle"]
    /\ op' = [op EXCEPT ![s].at = pc[s]]

\* the call passes its checks and enters its try block at `next`
Enter(s, call, newcache, next) ==
    /\ cache' = [cache EXCEPT ![s] = newcache]
    /\ op' = [op EXCEPT ![s] = call]
    /\ pc' = [pc EXCEPT ![s] = next]
    /\ started' = started + 1
    /\ UNCHANGED <<accounts, ledger, result, ret>>

\* the account table after the session's changed attributes are flushed
Flushed(s) ==
    [a \in 1..Len(accounts) |->
        [accounts[a] EXCEPT
            !.balance = IF cache[s][a].loaded /\ "balance" \in cache[s][a].changed
                        THEN cache[s][a].balance ELSE @,
            !.is_active = IF cache[s][a].loaded /\ "is_active" \in cache[s][a].changed
                          THEN cache[s][a].is_active ELSE @,
            !.updated_at = IF cache[s][a].loaded /\ "updated_at" \in cache[s][a].changed
                           THEN cache[s][a].updated_at ELSE @]]

\* the identity map after a commit: expire_on_commit=False (db/session.py:45),
\* so every object stays loaded with the values it holds, none of them pending
Persisted(s) == [a \in AccountIds |-> [cache[s][a] EXCEPT !.changed = {}]]

\* db.commit(): the changed attributes of the session's objects are written;
\* the objects stay loaded
Commit(s) ==
    /\ accounts' = Flushed(s)
    /\ cache' = [cache EXCEPT ![s] = Persisted(s)]
    /\ UNCHANGED ledger

\* db.refresh(account); return account: the object is loaded again from its
\* committed row, and stays in the identity map while the caller keeps it
Refresh(s, a) ==
    /\ \E held \in StillReferenced([cache[s] EXCEPT ![a] = Load(a)], {a}) :
          cache' = [cache EXCEPT ![s] = held]
    /\ UNCHANGED <<accounts, ledger>>

\* an except block that re-raises without db.rollback()
ExceptWithoutRollback(s) ==
    /\ Finish(s, "fault")
    /\ UNCHANGED <<accounts, ledger, cache, ret, started>>

\* except Exception: db.rollback(); raise
Except(s) ==
    /\ Rollback(s)
    /\ Finish(s, "fault")
    /\ UNCHANGED <<ret, started>>

\* the commits and refreshes inside a try block that the storage may fail
TryPcs == {"close_commit", "close_refresh", "reactivate_commit", "reactivate_refresh"}

\* the storage fails the commit or the refresh the call stands at
Raise(s) ==
    /\ pc[s] \in TryPcs
    /\ Except(s)

\* ---------------------------------------------------------------- deposit
\* lines 212-225: the checks, then the balance and updated_at are changed in memory
Deposit(s, a, amount, reference) ==
    /\ CanStart(s)
    /\ LET call == [NoOp EXCEPT !.kind = "deposit", !.account_id = a,
                       !.amount = amount, !.reference = reference]
           account == Query(s, a)
       IN  IF amount <= 0 THEN Reject(s, call, "invalid_amount", cache[s], {})
           ELSE IF ~account.loaded THEN Reject(s, call, "not_found", cache[s], {})
           ELSE IF ~account.is_active THEN Reject(s, call, "inactive", Loaded(s, a), {a})
           ELSE Enter(s, call,
                      [cache[s] EXCEPT ![a] = SetUpdatedAt(SetBalance(account,
                                                              account.balance + amount))],
                      "deposit_txn")

\* a deposit that goes on to its commit without its ledger row
DepositTransactionSkippingRow(s) ==
    /\ pc[s] = "deposit_txn"
    /\ accounts' = Flushed(s)
    /\ cache' = [cache EXCEPT ![s] = Persisted(s)]
    /\ Finish(s, "ok")
    /\ UNCHANGED <<ledger, ret, started>>

\* lines 228-236 and 246-249: Transaction(...) raises, the except block rolls back
DepositTransaction(s) ==
    /\ pc[s] = "deposit_txn"
    /\ InvalidKeywords # {}
    /\ Except(s)

\* ---------------------------------------------------------------- withdraw
\* withdraw without its funds check (lines 283-286 dropped)
WithdrawUnchecked(s, a, amount, reference) ==
    /\ CanStart(s)
    /\ LET call == [NoOp EXCEPT !.kind = "withdraw", !.account_id = a,
                       !.amount = amount, !.reference = reference]
           account == Query(s, a)
       IN  IF amount <= 0 THEN Reject(s, call, "invalid_amount", cache[s], {})
           ELSE IF ~account.loaded THEN Reject(s, call, "not_found", cache[s], {})
           ELSE IF ~account.is_active THEN Reject(s, call, "inactive", Loaded(s, a), {a})
           ELSE Enter(s, call,
                      [cache[s] EXCEPT ![a] = SetUpdatedAt(SetBalance(account,
                                                              account.balance - amount))],
                      "withdraw_txn")

\* lines 273-291: the checks, then the balance and updated_at are changed in memory
Withdraw(s, a, amount, reference) ==
    /\ CanStart(s)
    /\ LET call == [NoOp EXCEPT !.kind = "withdraw", !.account_id = a,
                       !.amount = amount, !.reference = reference]
           account == Query(s, a)
       IN  IF amount <= 0 THEN Reject(s, call, "invalid_amount", cache[s], {})
           ELSE IF ~account.loaded THEN Reject(s, call, "not_found", cache[s], {})
           ELSE IF ~account.is_active THEN Reject(s, call, "inactive", Loaded(s, a), {a})
           ELSE IF account.balance < amount
                THEN Reject(s, call, "insufficient_funds", Loaded(s, a), {a})
           ELSE Enter(s, call,
                      [cache[s] EXCEPT ![a] = SetUpdatedAt(SetBalance(account,
                                                              account.balance - amount))],
                      "withdraw_txn")

\* a withdrawal whose except block marks the withdrawals of the account failed
WithdrawTransactionFailingRows(s) ==
    /\ pc[s] = "withdraw_txn"
    /\ ledger' = [i \in 1..Len(ledger) |->
                      IF ledger[i].from_account_id = op[s].account_id
                      THEN [ledger[i] EXCEPT !.status = "failed"]
                      ELSE ledger[i]]
    /\ cache' = [cache EXCEPT ![s] = ExpiredAll(s)]
    /\ Finish(s, "fault")
    /\ UNCHANGED <<accounts, ret, started>>

\* lines 294-302 and 312-315: Transaction(...) raises, the except block rolls back
WithdrawTransaction(s) ==
    /\ pc[s] = "withdraw_txn"
    /\ InvalidKeywords # {}
    /\ Except(s)

\* ---------------------------------------------------------------- transfer
\* lines 341-348: the two argument checks, then the source account is read
Transfer(s, from, to, amount, reference) ==
    /\ CanStart(s)
    /\ LET call == [NoOp EXCEPT !.kind = "transfer", !.account_id = from,
                       !.to_account_id = to, !.amount = amount,
                       !.reference = reference]
       IN  IF amount <= 0 THEN Reject(s, call, "invalid_amount", cache[s], {})
           ELSE IF from = to THEN Reject(s, call, "same_account", cache[s], {})
           ELSE Enter(s, call, Loaded(s, from), "transfer_read")

\* transfer without its currency check (lines 368-371 dropped)
TransferCheckAnyCurrency(s) ==
    /\ pc[s] = "transfer_read"
    /\ LET from == op[s].account_id
           to == op[s].to_account_id
           amount == op[s].amount
           from_account == cache[s][from]
           to_account == Query(s, to)
           fail(kind) == /\ Finish(s, kind)
                         /\ \E held \in StillReferenced(Loaded(s, to), {from, to}) :
                               cache' = [cache EXCEPT ![s] = held]
                         /\ UNCHANGED <<accounts, ledger, ret, started>>
       IN  IF ~from_account.loaded THEN fail("not_found")
           ELSE IF ~to_account.loaded THEN fail("not_found")
           ELSE IF ~from_account.is_active THEN fail("inactive")
           ELSE IF ~to_account.is_active THEN fail("inactive")
           ELSE IF from_account.balance < amount THEN fail("insufficient_funds")
           ELSE /\ cache' = [cache EXCEPT ![s] =
                                [@ EXCEPT ![from] = SetUpdatedAt(SetBalance(from_account,
                                                        from_account.balance - amount)),
                                          ![to] = SetUpdatedAt(SetBalance(to_account,
                                                      to_account.balance + amount))]]
                /\ pc' = [pc EXCEPT ![s] = "transfer_debit"]
                /\ UNCHANGED <<accounts, ledger, op, result, ret, started>>

\* lines 349-384: the destination is read, the checks run on the two objects,
\* then both balances and updated_at are changed in memory; a refused transfer leaves its two
\* objects in the identity map while the caller refers to them
TransferCheck(s) ==
    /\ pc[s] = "transfer_read"
    /\ LET from == op[s].account_id
           to == op[s].to_account_id
           amount == op[s].amount
           from_account == cache[s][from]
           to_account == Query(s, to)
           fail(kind) == /\ Finish(s, kind)
                         /\ \E held \in StillReferenced(Loaded(s, to), {from, to}) :
                               cache' = [cache EXCEPT ![s] = held]
                         /\ UNCHANGED <<accounts, ledger, ret, started>>
       IN  IF ~from_account.loaded THEN fail("not_found")
           ELSE IF ~to_account.loaded THEN fail("not_found")
           ELSE IF ~from_account.is_active THEN fail("inactive")
           ELSE IF ~to_account.is_active THEN fail("inactive")
           ELSE IF accounts[from].currency # accounts[to].currency
                THEN fail("currency_mismatch")
           ELSE IF from_account.balance < amount THEN fail("insufficient_funds")
           ELSE /\ cache' = [cache EXCEPT ![s] =
                                [@ EXCEPT ![from] = SetUpdatedAt(SetBalance(from_account,
                                                        from_account.balance - amount)),
                                          ![to] = SetUpdatedAt(SetBalance(to_account,
                                                      to_account.balance + amount))]]
                /\ pc' = [pc EXCEPT ![s] = "transfer_debit"]
                /\ UNCHANGED <<accounts, ledger, op, result, ret, started>>

\* a transfer that waits at its debit row while another transfer is in flight
TransferDebitWaiting(s) ==
    /\ pc[s] = "transfer_debit"
    /\ \A t \in Sessions \ {s} : pc[t] \notin {"transfer_read", "transfer_debit"}
    /\ InvalidKeywords # {}
    /\ Except(s)

\* a transfer whose changed balances are committed before its debit row fails
TransferDebitCommitting(s) ==
    /\ pc[s] = "transfer_debit"
    /\ accounts' = Flushed(s)
    /\ cache' = [cache EXCEPT ![s] = Persisted(s)]
    /\ Finish(s, "fault")
    /\ UNCHANGED <<ledger, ret, started>>

\* a transfer whose debit is committed before its debit row fails, the credit
\* rolled back
TransferDebitKeepingDebit(s) ==
    /\ pc[s] = "transfer_debit"
    /\ accounts' = [accounts EXCEPT ![op[s].account_id].balance =
                                        cache[s][op[s].account_id].balance]
    /\ cache' = [cache EXCEPT ![s] = ExpiredAll(s)]
    /\ Finish(s, "fault")
    /\ UNCHANGED <<ledger, ret, started>>

\* a transfer whose credit is committed before its debit row fails, the debit
\* rolled back
TransferDebitKeepingCredit(s) ==
    /\ pc[s] = "transfer_debit"
    /\ accounts' = [accounts EXCEPT ![op[s].to_account_id].balance =
                                        cache[s][op[s].to_account_id].balance]
    /\ cache' = [cache EXCEPT ![s] = ExpiredAll(s)]
    /\ Finish(s, "fault")
    /\ UNCHANGED <<ledger, ret, started>>

\* lines 387-396 and 423-426: Transaction(...) of the debit row raises, the
\* except block rolls back
TransferDebit(s) ==
    /\ pc[s] = "transfer_debit"
    /\ InvalidKeywords # {}
    /\ Except(s)

\* ---------------------------------------------------------------- create_account
\* lines 50-57: inside the try block the user is looked up (the SELECT of line
\* 52); the SELECT fails, or a missing user raises ValueError, or an existing
\* one reaches _generate_account_number, whose type_codes raises: in every
\* case the next statement is the rollback of the except block
CreateAccount(s, user_id, account_type, currency, initial_balance) ==
    /\ CanStart(s)
    /\ user_id \notin Users \/ MissingMembers # {}
    /\ Enter(s, [NoOp EXCEPT !.kind = "create", !.user_id = user_id,
                            !.amount = initial_balance],
             cache[s], "create_rollback")

\* a create_account that stores the account, numbered by the count of the
\* owner's accounts (line 125 without its + 1)
CreateStoringByCount(s) ==
    /\ pc[s] = "create_rollback"
    /\ op[s].user_id \in Users /\ Len(accounts) < MaxAccounts
    /\ LET count == Cardinality({a \in 1..Len(accounts) :
                                    accounts[a].user_id = op[s].user_id})
       IN  accounts' = Append(accounts, Account(op[s].user_id, count, "savings", 0,
                                                "USD", TRUE, UtcNow))
    /\ Finish(s, "ok")
    /\ UNCHANGED <<ledger, cache, ret, started>>

\* lines 89-92: db.rollback(), then the exception is raised again: the error
\* of the storage when the SELECT failed, else the ValueError of a missing
\* user, else the AttributeError of type_codes
CreateRollback(s) ==
    /\ pc[s] = "create_rollback"
    /\ Rollback(s)
    /\ \/ Finish(s, "fault")
       \/ /\ op[s].user_id \notin Users
          /\ Finish(s, "not_found")
    /\ UNCHANGED <<ret, started>>

\* ---------------------------------------------------------------- reads
\* the call returns at its first statement; the Accounts it returns stay in
\* the identity map while the caller keeps them
Return(s, call, newcache, touched) ==
    /\ result' = [result EXCEPT ![s] = "ok"]
    /\ op' = [op EXCEPT ![s] = [call EXCEPT !.at = "check"]]
    /\ \E held \in StillReferenced(newcache, touched) :
          cache' = [cache EXCEPT ![s] = held]
    /\ started' = started + 1
    /\ UNCHANGED <<accounts, ledger, pc>>

\* lines 129-139: the Account of the id, or None
GetAccount(s, a) ==
    /\ CanStart(s)
    /\ Return(s, [NoOp EXCEPT !.kind = "get_account", !.account_id = a],
              Loaded(s, a), {a})
    /\ UNCHANGED ret

\* lines 141-155: the Account whose row carries the account number, or None
GetAccountByNumber(s, account_number) ==
    /\ CanStart(s)
    /\ LET call == [NoOp EXCEPT !.kind = "get_account_by_number",
                               !.account_number = account_number]
           rows == {a \in 1..Len(accounts) : accounts[a].account_number = account_number}
       IN  IF rows = {} THEN Return(s, call, cache[s], {})
           ELSE LET a == CHOOSE x \in rows : TRUE
                IN  Return(s, [call EXCEPT !.account_id = a], Loaded(s, a), {a})
    /\ UNCHANGED ret

\* lines 157-175: the Accounts whose rows belong to the user, the active rows
\* only when active_only; a row the session holds an object of comes back as
\* that object
GetUserAccounts(s, user_id, active_only) ==
    /\ CanStart(s)
    /\ LET rows == {a \in 1..Len(accounts) :
                       /\ accounts[a].user_id = user_id
                       /\ active_only => accounts[a].is_active}
       IN  Return(s, [NoOp EXCEPT !.kind = "get_user_accounts", !.user_id = user_id,
                                 !.active_only = active_only],
                  [a \in AccountIds |-> IF a \in rows THEN Query(s, a) ELSE cache[s][a]],
                  rows)
    /\ UNCHANGED ret

\* lines 177-188: the balance of the object get_account (line 187) returns,
\* None if none.  The SELECT fills an object the session holds again when it
\* is expired; the Decimal is returned, so nothing refers to an Account the
\* call has newly loaded
GetBalance(s, a) ==
    /\ CanStart(s)
    /\ LET account == Query(s, a)
       IN  /\ ret' = [ret EXCEPT ![s] = IF account.loaded THEN account.balance
                                        ELSE NoBalance]
           /\ Return(s, [NoOp EXCEPT !.kind = "get_balance", !.account_id = a],
                     IF cache[s][a].held THEN Loaded(s, a) ELSE cache[s], {a})

\* get_account_summary without its not-found check (lines 529-530 dropped)
GetAccountSummaryUnchecked(s, a) ==
    /\ CanStart(s)
    /\ MissingAttributes # {}
    /\ Reject(s, [NoOp EXCEPT !.kind = "summary", !.account_id = a], "fault",
              Loaded(s, a), {a})

\* lines 528-539: the account is read; a missing one raises ValueError, for an
\* existing one the first query names Transaction.account_id and raises
GetAccountSummary(s, a) ==
    /\ CanStart(s)
    /\ LET call == [NoOp EXCEPT !.kind = "summary", !.account_id = a]
       IN  IF ~Query(s, a).loaded THEN Reject(s, call, "not_found", cache[s], {})
           ELSE /\ MissingAttributes # {}
                /\ Reject(s, call, "fault", Loaded(s, a), {a})

\* line 491: the query names Transaction.account_id and raises before any
\* statement is sent
GetTransactionHistory(s, a) ==
    /\ CanStart(s)
    /\ MissingAttributes # {}
    /\ Reject(s, [NoOp EXCEPT !.kind = "history", !.account_id = a], "fault",
              cache[s], {})

\* ---------------------------------------------------------------- lifecycle
\* close_account without its balance check (lines 587-590 dropped)
CloseAccountUnchecked(s, a) ==
    /\ CanStart(s)
    /\ LET call == [NoOp EXCEPT !.kind = "close", !.account_id = a]
           account == Query(s, a)
       IN  IF ~account.loaded THEN Reject(s, call, "not_found", cache[s], {})
           ELSE Enter(s, call,
                      [cache[s] EXCEPT ![a] = SetUpdatedAt(SetActive(account, FALSE))],
                      "close_commit")

\* lines 583-594: the checks, then the flag is cleared and updated_at set in memory
CloseAccount(s, a) ==
    /\ CanStart(s)
    /\ LET call == [NoOp EXCEPT !.kind = "close", !.account_id = a]
           account == Query(s, a)
       IN  IF ~account.loaded THEN Reject(s, call, "not_found", cache[s], {})
           ELSE IF account.balance # 0
                THEN Reject(s, call, "nonzero_balance", Loaded(s, a), {a})
           ELSE Enter(s, call,
                      [cache[s] EXCEPT ![a] = SetUpdatedAt(SetActive(account, FALSE))],
                      "close_commit")

\* a close that also deletes the rows of the account
CloseCommitPurging(s) ==
    /\ pc[s] = "close_commit"
    /\ accounts' = Flushed(s)
    /\ cache' = [cache EXCEPT ![s] = Persisted(s)]
    /\ ledger' = SelectSeq(ledger, LAMBDA row : /\ row.to_account_id # op[s].account_id
                                                /\ row.from_account_id # op[s].account_id)
    /\ pc' = [pc EXCEPT ![s] = "close_refresh"]
    /\ UNCHANGED <<op, result, ret, started>>

\* line 596: db.commit()
CloseCommit(s) ==
    /\ pc[s] = "close_commit"
    /\ Commit(s)
    /\ pc' = [pc EXCEPT ![s] = "close_refresh"]
    /\ UNCHANGED <<op, result, ret, started>>

\* lines 597-601: db.refresh(account), then the account is returned
CloseRefresh(s) ==
    /\ pc[s] = "close_refresh"
    /\ Refresh(s, op[s].account_id)
    /\ Finish(s, "ok")
    /\ UNCHANGED <<ret, started>>

\* lines 618-624: the check, then the flag and updated_at are set in memory
ReactivateAccount(s, a) ==
    /\ CanStart(s)
    /\ LET call == [NoOp EXCEPT !.kind = "reactivate", !.account_id = a]
           account == Query(s, a)
       IN  IF ~account.loaded THEN Reject(s, call, "not_found", cache[s], {})
           ELSE Enter(s, call,
                      [cache[s] EXCEPT ![a] = SetUpdatedAt(SetActive(account, TRUE))],
                      "reactivate_commit")

\* a reactivation that also writes a balance of SeedBalance
ReactivateCommitWritingBalance(s) ==
    /\ pc[s] = "reactivate_commit"
    /\ accounts' = [Flushed(s) EXCEPT ![op[s].account_id].balance = SeedBalance]
    /\ cache' = [cache EXCEPT ![s] = Persisted(s)]
    /\ pc' = [pc EXCEPT ![s] = "reactivate_refresh"]
    /\ UNCHANGED <<ledger, op, result, ret, started>>

\* line 626: db.commit()
ReactivateCommit(s) ==
    /\ pc[s] = "reactivate_commit"
    /\ Commit(s)
    /\ pc' = [pc EXCEPT ![s] = "reactivate_refresh"]
    /\ UNCHANGED <<op, result, ret, started>>

\* lines 627-631: db.refresh(account), then the account is returned
ReactivateRefresh(s) ==
    /\ pc[s] = "reactivate_refresh"
    /\ Refresh(s, op[s].account_id)
    /\ Finish(s, "ok")
    /\ UNCHANGED <<ret, started>>

\* ---------------------------------------------------------------- next
\* the steps of a transfer after its first statement
TransferStep(s) == TransferCheck(s) \/ TransferDebit(s)

\* the steps of the calls after their first statement
Step(s) ==
    \/ DepositTransaction(s) \/ WithdrawTransaction(s)
    \/ TransferStep(s)
    \/ CreateRollback(s)
    \/ CloseCommit(s) \/ CloseRefresh(s)
    \/ ReactivateCommit(s) \/ ReactivateRefresh(s)
    \/ Raise(s)

\* a call on the service
Call(s) ==
    \/ \E a \in AccountIds, amount \in Amounts :
          \/ \E reference \in SuppliedReferences : Deposit(s, a, amount, reference)
          \/ Withdraw(s, a, amount, NoRef)
    \/ \E from \in AccountIds, to \in AccountIds, amount \in Amounts :
          Transfer(s, from, to, amount, NoRef)
    \/ \E user_id \in UserIds, request \in CreateRequests, initial_balance \in Amounts :
          CreateAccount(s, user_id, request[1], request[2], initial_balance)
    \/ \E account_number \in AccountNumbers : GetAccountByNumber(s, account_number)
    \/ \E user_id \in UserIds, active_only \in BOOLEAN :
          GetUserAccounts(s, user_id, active_only)
    \/ \E a \in AccountIds :
          \/ GetAccount(s, a)
          \/ GetBalance(s, a)
          \/ GetAccountSummary(s, a)
          \/ GetTransactionHistory(s, a)
          \/ CloseAccount(s, a)
          \/ ReactivateAccount(s, a)

Next == \E s \in Sessions : Call(s) \/ Step(s)

Spec == Init /\ [][Next]_vars

\* transfers only, between the two funded accounts
NextTransfers ==
    \E s \in Sessions :
        \/ \E from \in AccountIds, to \in AccountIds, amount \in Amounts :
              Transfer(s, from, to, amount, NoRef)
        \/ TransferStep(s)

SpecTransfers == FundedPair /\ [][NextTransfers]_vars

\* a call that has started is run to its end
LiveTransfers ==
    SpecTransfers /\ \A s \in Sessions : WF_vars(TransferStep(s))

\* ---------------------------------------------------------------- ledger sums
RECURSIVE SumAmounts(_)
\* the sum of the amounts of the rows `rows`
SumAmounts(rows) == IF rows = <<>> THEN 0 ELSE Head(rows).amount + SumAmounts(Tail(rows))

\* the completed rows of `rows` that pay into account a, and those that pay
\* out of it (to_account_id, from_account_id)
Credits(rows, a) ==
    SumAmounts(SelectSeq(rows, LAMBDA row : row.status = "completed"
                                             /\ row.to_account_id = a))

Debits(rows, a) ==
    SumAmounts(SelectSeq(rows, LAMBDA row : row.status = "completed"
                                             /\ row.from_account_id = a))

RECURSIVE Total(_)
\* the sum of the balances of the account rows `rows`
Total(rows) == IF rows = <<>> THEN 0 ELSE Head(rows).balance + Total(Tail(rows))

\* ---------------------------------------------------------------- claims
Quiescent == \A s \in Sessions : pc[s] = "idle"

TransferInFlight(s) == pc[s] \in {"transfer_read", "transfer_debit"}

\* a transfer that has changed its two balances in memory
TransferMutated(s) == pc[s] = "transfer_debit"

\* the step is the call of session s with the arguments `call`
CallOf(s, call) ==
    CASE call.kind = "deposit" ->
             Deposit(s, call.account_id, call.amount, call.reference)
      [] call.kind = "withdraw" ->
             Withdraw(s, call.account_id, call.amount, call.reference)
      [] call.kind = "transfer" ->
             Transfer(s, call.account_id, call.to_account_id, call.amount, call.reference)
      [] call.kind = "create" ->
             \E request \in CreateRequests :
                 CreateAccount(s, call.user_id, request[1], request[2], call.amount)
      [] call.kind = "get_account" -> GetAccount(s, call.account_id)
      [] call.kind = "get_account_by_number" -> GetAccountByNumber(s, call.account_number)
      [] call.kind = "get_user_accounts" ->
             GetUserAccounts(s, call.user_id, call.active_only)
      [] call.kind = "get_balance" -> GetBalance(s, call.account_id)
      [] call.kind = "summary" -> GetAccountSummary(s, call.account_id)
      [] call.kind = "history" -> GetTransactionHistory(s, call.account_id)
      [] call.kind = "close" -> CloseAccount(s, call.account_id)
      [] call.kind = "reactivate" -> ReactivateAccount(s, call.account_id)
      [] OTHER -> FALSE

\* the step is a call of the given kind made by session s: every such step,
\* whatever its outcome
Calls(s, kind) ==
    /\ pc[s] = "idle"
    /\ op'[s].kind = kind
    /\ CallOf(s, op'[s])

\* the step by which a call of the given kind, made of several statements, ends
Ends(s, kind) == op[s].kind = kind /\ pc[s] # "idle" /\ pc'[s] = "idle"

\* the step that session s takes from position `at`
Leaves(s, at) == pc[s] = at /\ pc'[s] # at

\* the step of session s ends its call, which returns
Succeeds(s) == pc'[s] = "idle" /\ result'[s] = "ok"

\* C1: in every reachable committed state, after any sequence of
\* createAccount, deposit, withdraw, transfer, closeAccount and
\* reactivateAccount calls, the stored balance of every account equals its
\* completed deposits and incoming transfers minus its completed withdrawals
\* and outgoing transfers.
BalanceIsLedgerSum ==
    \A a \in 1..Len(accounts) :
        accounts[a].balance = Credits(ledger, a) - Debits(ledger, a)

\* C1 witness: a transfer out of a funded account and a deposit to it both
\* failed after they had changed the balance in their sessions, a third call
\* was made, and the account holds its completed credits minus its debits
BalancedAfterFailedCalls ==
    \E s \in Sessions, t \in Sessions :
        /\ started = MaxOps /\ Quiescent
        /\ op[s].kind = "transfer" /\ result[s] = "fault"
        /\ op[s].at = "transfer_debit"
        /\ op[t].kind = "deposit" /\ result[t] = "fault"
        /\ op[t].at = "deposit_txn"
        /\ op[t].account_id = op[s].account_id
        /\ accounts[op[s].account_id].balance = SeedBalance
        /\ Credits(ledger, op[s].account_id) - Debits(ledger, op[s].account_id)
               = SeedBalance

\* C2: every account balance, committed or held by a session, is >= 0 in
\* every reachable state.
BalanceNonNegative ==
    /\ \A a \in 1..Len(accounts) : accounts[a].balance >= 0
    /\ \A s \in Sessions, a \in AccountIds : cache[s][a].balance >= 0

\* C2 witness: a withdrawal and an outgoing transfer interleave on one account
\* that holds money; each has taken the whole balance in its session
WholeBalanceTakenTwice ==
    \E s \in Sessions, t \in Sessions :
        /\ pc[s] = "withdraw_txn" /\ pc[t] = "transfer_debit"
        /\ op[s].account_id = op[t].account_id
        /\ accounts[op[s].account_id].balance = SeedBalance
        /\ cache[s][op[s].account_id].balance = 0
        /\ cache[t][op[t].account_id].balance = 0

\* C3: a transfer is all-or-nothing. The step that ends a transfer either
\* returns with the debit, the credit and the two rows committed together, or
\* leaves the committed balances and rows as they were, with nothing of the
\* transfer left in its session; no other step of a transfer touches the
\* committed state.
TransferAllOrNothing ==
    [][\A s \in Sessions :
          (TransferInFlight(s) /\ pc'[s] # pc[s]) =>
              LET from == op[s].account_id
                  to == op[s].to_account_id
              IN  IF Succeeds(s)
                  THEN /\ accounts'[from].balance = accounts[from].balance - op[s].amount
                       /\ accounts'[to].balance = accounts[to].balance + op[s].amount
                       /\ Len(ledger') = Len(ledger) + 2
                  ELSE /\ accounts' = accounts
                       /\ ledger' = ledger
                       /\ (pc[s] = "transfer_debit" /\ pc'[s] = "idle")
                             => \A a \in AccountIds : cache'[s][a].changed = {}
      ]_vars

\* C3 witness: a transfer failed after it had changed both balances in its
\* session; the two accounts hold what they held and the session holds nothing
FailedAfterBalancesChanged ==
    \E s \in Sessions :
        /\ op[s].kind = "transfer" /\ result[s] = "fault"
        /\ op[s].at = "transfer_debit"
        /\ \A a \in AccountIds : ~cache[s][a].loaded
        /\ accounts[op[s].account_id].balance = SeedBalance
        /\ accounts[op[s].account_id].balance
               = Credits(ledger, op[s].account_id) - Debits(ledger, op[s].account_id)
        /\ accounts[op[s].to_account_id].balance
               = Credits(ledger, op[s].to_account_id) - Debits(ledger, op[s].to_account_id)

\* C4: a successful transfer decreases from.balance by exactly amount and
\* increases to.balance by exactly amount, so it leaves the sum of all
\* balances unchanged: a transfer that has passed its checks returns with
\* both balances moved by the amount.
TransferConservesTotal ==
    [][\A s \in Sessions :
          Leaves(s, "transfer_debit") =>
              /\ Succeeds(s)
              /\ accounts'[op[s].account_id].balance
                     = accounts[op[s].account_id].balance - op[s].amount
              /\ accounts'[op[s].to_account_id].balance
                     = accounts[op[s].to_account_id].balance + op[s].amount
              /\ Total(accounts') = Total(accounts)
      ]_vars

\* C5: no observer sees an intermediate state of a transfer. Every
\* get_balance and every get_account of an account, by a reader that holds an
\* object of it or not, gives its committed balance, never the balance
\* another session holds in memory, and no step of a transfer in flight
\* publishes one of its two balances without the other.
NoIntermediateState ==
    [][/\ \A r \in Sessions, a \in AccountIds :
             /\ (Calls(r, "get_balance") /\ op'[r].account_id = a /\ Exists(a)) =>
                    ret'[r] = accounts[a].balance
             /\ (Calls(r, "get_account") /\ op'[r].account_id = a
                     /\ cache'[r][a].loaded) =>
                    cache'[r][a].balance = accounts[a].balance
       /\ \A s \in Sessions :
             (TransferInFlight(s) /\ pc'[s] # pc[s]) =>
                 LET from == op[s].account_id
                     to == op[s].to_account_id
                 IN  \/ accounts' = accounts
                     \/ /\ Exists(from) /\ Exists(to)
                        /\ accounts'[from].balance = cache[s][from].balance
                        /\ accounts'[to].balance = cache[s][to].balance
      ]_vars

\* C5 witness: a transfer has debited and credited its objects in memory; a
\* reader was given the committed, pre-transfer balance of the source by
\* get_balance and holds the destination, read by get_account, at its
\* committed balance
ReaderSeesCommitted ==
    \E s \in Sessions, r \in Sessions :
        /\ r # s
        /\ pc[s] = "transfer_debit"
        /\ op[r].kind = "get_balance" /\ pc[r] = "idle"
        /\ LET from == op[s].account_id
               to == op[s].to_account_id
           IN  /\ op[r].account_id = from
               /\ ret[r] = accounts[from].balance
               /\ ret[r] # cache[s][from].balance
               /\ cache[r][to].loaded
               /\ cache[r][to].balance = accounts[to].balance
               /\ cache[r][to].balance # cache[s][to].balance

\* C6: a transfer holds the locks on both of its accounts before it changes
\* either balance (and takes them in ascending account-id order).
TransferHoldsLocks ==
    \A s \in Sessions :
        TransferMutated(s) =>
            {op[s].account_id, op[s].to_account_id} \subseteq LockedAccounts(s)

\* C7: concurrent transfers between the same accounts, in either direction,
\* never block one another: every started transfer eventually ends.
TransfersTerminate ==
    \A s \in Sessions : (pc[s] # "idle") ~> (pc[s] = "idle")

\* C7 witness: two transfers in opposite directions between the same two
\* accounts have both changed their balances in memory
OppositeTransfersInFlight ==
    \E s \in Sessions, t \in Sessions :
        /\ s # t
        /\ pc[s] = "transfer_debit" /\ pc[t] = "transfer_debit"
        /\ op[s].account_id = op[t].to_account_id
        /\ op[s].to_account_id = op[t].account_id

RECURSIVE NetOf(_, _)
\* the net amount the successful transfers of the sessions `ss` moved to account a
NetOf(ss, a) ==
    IF ss = {} THEN 0
    ELSE LET s == CHOOSE x \in ss : TRUE
             moved == IF op[s].kind = "transfer" /\ result[s] = "ok"
                      THEN (IF op[s].to_account_id = a THEN op[s].amount ELSE 0)
                           - (IF op[s].account_id = a THEN op[s].amount ELSE 0)
                      ELSE 0
         IN  moved + NetOf(ss \ {s}, a)

\* C8: when the transfers of all sessions, one each, between the same two
\* accounts have finished, in whatever order their steps interleaved, each
\* account's balance is its initial balance plus the net of the amounts of
\* the transfers that reported success.
FinalBalancesAreNet ==
    (/\ Quiescent /\ started = NumSessions
     /\ \A s \in Sessions : op[s].kind = "transfer") =>
        \A a \in 1..Len(accounts) :
            accounts[a].balance = SeedBalance + NetOf(Sessions, a)

\* C8 witness: two transfers in opposite directions between the two accounts
\* have both finished after each had changed both balances in its session;
\* none reported success and each account holds its initial balance
OppositeTransfersFinished ==
    \E s \in Sessions, t \in Sessions :
        /\ s # t /\ Quiescent /\ started = NumSessions
        /\ op[s].kind = "transfer" /\ op[s].at = "transfer_debit"
        /\ op[t].kind = "transfer" /\ op[t].at = "transfer_debit"
        /\ op[s].account_id = op[t].to_account_id
        /\ op[s].to_account_id = op[t].account_id
        /\ result[s] # "ok" /\ result[t] # "ok"
        /\ \A a \in 1..Len(accounts) : accounts[a].balance = SeedBalance

\* C9: no update is lost. When two deposits on one account that passed their
\* checks have both finished, both have returned, the ledger holds a row for
\* each and the balance is the sum of the account's rows.
DepositsAllCounted ==
    \A s \in Sessions, t \in Sessions :
        (/\ s # t /\ Quiescent
         /\ op[s].kind = "deposit" /\ op[s].at = "deposit_txn"
         /\ op[t].kind = "deposit" /\ op[t].at = "deposit_txn"
         /\ op[s].account_id = op[t].account_id)
        => LET a == op[s].account_id
           IN  /\ result[s] = "ok" /\ result[t] = "ok"
               /\ \E i \in 1..Len(ledger), j \in 1..Len(ledger) :
                     /\ i # j
                     /\ ledger[i].to_account_id = a /\ ledger[i].amount = op[s].amount
                     /\ ledger[j].to_account_id = a /\ ledger[j].amount = op[t].amount
               /\ accounts[a].balance = Credits(ledger, a) - Debits(ledger, a)
               /\ accounts[a].balance >= op[s].amount + op[t].amount

\* C10: a transfer re-validates under its locks: it changes its two balances
\* only if, at that time, the source holds the amount and both accounts are
\* active in the committed state.
TransferRevalidates ==
    [][\A s \in Sessions :
          (pc[s] = "transfer_read" /\ pc'[s] = "transfer_debit") =>
              /\ accounts[op[s].account_id].balance >= op[s].amount
              /\ accounts[op[s].account_id].is_active
              /\ accounts[op[s].to_account_id].is_active
      ]_vars

\* C11: createAccount with a positive initial balance records the balance and
\* the initial deposit row in one unit of work: the call for an existing user
\* returns with the account stored at that balance and a completed deposit of
\* that amount on it, committed in the same step.
NoUnbackedBalance ==
    [][\A s \in Sessions :
          (Ends(s, "create") /\ op[s].user_id \in Users /\ op'[s].amount > 0) =>
              LET n == Len(accounts')
              IN  /\ Succeeds(s)
                  /\ n = Len(accounts) + 1
                  /\ accounts'[n].balance = op'[s].amount
                  /\ \E i \in 1..Len(ledger') :
                        /\ i > Len(ledger)
                        /\ ledger'[i].to_account_id = n
                        /\ ledger'[i].status = "completed"
                        /\ ledger'[i].amount = op'[s].amount
      ]_vars

\* a deposit or a withdrawal inside its try block
DepositOrWithdrawInFlight(s) == pc[s] \in {"deposit_txn", "withdraw_txn"}

\* C12: any failure inside a deposit or withdraw unit of work rolls back every
\* mutation. The step that fails the call after its balance was changed leaves
\* the committed balances and rows as they were before the call and leaves no
\* changed balance in the session.
FailureRollsBack ==
    [][\A s \in Sessions :
          (DepositOrWithdrawInFlight(s) /\ pc'[s] = "idle" /\ result'[s] # "ok") =>
              /\ accounts' = accounts
              /\ ledger' = ledger
              /\ \A a \in AccountIds : ~cache'[s][a].loaded /\ cache'[s][a].changed = {}
      ]_vars

\* C12 witness: a deposit failed at its ledger append after it had changed the
\* balance; the account holds what it held and the session holds nothing
DepositFailedAfterBalanceChanged ==
    \E s \in Sessions :
        /\ op[s].kind = "deposit" /\ result[s] = "fault"
        /\ op[s].at = "deposit_txn"
        /\ \A a \in AccountIds : ~cache[s][a].loaded
        /\ accounts[op[s].account_id].balance = SeedBalance
        /\ accounts[op[s].account_id].balance
               = Credits(ledger, op[s].account_id) - Debits(ledger, op[s].account_id)

\* the accounts whose balance a call at position p with arguments o has
\* changed in its session and not committed yet
Mutated(p, o) ==
    IF p \in {"deposit_txn", "withdraw_txn"}
    THEN {o.account_id}
    ELSE IF p = "transfer_debit"
    THEN {o.account_id, o.to_account_id}
    ELSE {}

\* C13: lock acquisition is bounded by a timeout. An operation one of whose
\* accounts is held by another operation in flight waits, or ends with
\* lock_timeout having changed no balance and appended no row: it never goes
\* on to change an account that the other operation holds.
ContendedOperationAborts ==
    [][\A s \in Sessions, t \in Sessions :
          (s # t /\ pc'[s] # pc[s]) =>
              LET held == Mutated(pc[t], op[t])
                  taken == Mutated(pc'[s], op'[s]) \ Mutated(pc[s], op[s])
              IN  \/ taken \cap held = {}
                  \/ result'[s] = "lock_timeout"
      ]_vars

\* C14: withdraw(A, amt) with amt above the balance of A (an active account,
\* as the calling service reads it) raises InsufficientFundsError, leaves the
\* balance unchanged and appends no transaction row.
WithdrawBeyondBalanceRejected ==
    [][\A s \in Sessions :
          LET a == op'[s].account_id
              account == Query(s, a)
          IN  (/\ Calls(s, "withdraw")
               /\ account.loaded /\ account.is_active
               /\ op'[s].amount > account.balance)
              => /\ result'[s] = "insufficient_funds"
                 /\ ErrorClass(result'[s]) = "InsufficientFundsError"
                 /\ pc'[s] = "idle"
                 /\ accounts' = accounts
                 /\ ledger' = ledger
                 /\ cache'[s][a].changed = {}
                 /\ cache'[s][a].loaded => cache'[s][a].balance = account.balance
      ]_vars

\* C15: closeAccount(A) on an account whose balance is not zero fails with
\* the nonzero-balance error and leaves the account as it is; on an account
\* whose balance is zero it goes on to its commit, and the commit leaves the
\* account inactive in the store.
CloseRequiresZeroBalance ==
    [][\A s \in Sessions :
          LET a == op'[s].account_id
              account == Query(s, a)
          IN  /\ (Calls(s, "close") /\ account.loaded /\ account.balance # 0)
                 => /\ result'[s] = "nonzero_balance"
                    /\ pc'[s] = "idle"
                    /\ accounts' = accounts
                    /\ cache'[s][a].loaded => cache'[s][a].is_active = account.is_active
              /\ (Calls(s, "close") /\ account.loaded /\ account.balance = 0)
                 => pc'[s] = "close_commit"
              /\ (pc[s] = "close_commit" /\ pc'[s] = "close_refresh")
                 => /\ ~accounts'[a].is_active
                    /\ accounts'[a].balance = accounts[a].balance
      ]_vars

\* C16: after closeAccount(A) has succeeded and until reactivateAccount(A),
\* every deposit to A and withdrawal from A is refused as inactive and changes
\* no balance and no ledger row, and so is every transfer that finds its
\* source or its destination inactive.
ClosedAccountRefusesCalls ==
    [][\A s \in Sessions :
          LET a == op'[s].account_id
              to == op[s].to_account_id
          IN  /\ (/\ Calls(s, "deposit") \/ Calls(s, "withdraw")
                  /\ op'[s].amount > 0
                  /\ Exists(a) /\ ~accounts[a].is_active)
                 => /\ result'[s] = "inactive"
                    /\ pc'[s] = "idle"
                    /\ accounts' = accounts
                    /\ ledger' = ledger
              /\ (/\ pc[s] = "transfer_read" /\ pc'[s] # pc[s]
                  /\ Exists(a) /\ Exists(to)
                  /\ ~accounts[a].is_active \/ ~accounts[to].is_active)
                 => /\ result'[s] = "inactive"
                    /\ pc'[s] = "idle"
                    /\ accounts' = accounts
                    /\ ledger' = ledger
      ]_vars

\* C17: an account is deactivated only at balance zero: in every reachable
\* state every inactive account has balance 0.
InactiveHasZeroBalance ==
    \A a \in 1..Len(accounts) :
        ~accounts[a].is_active => accounts[a].balance = 0

\* C17 witness: an account was closed while a deposit on it, which had passed
\* its checks and changed the balance in its session, was in flight; the
\* closed account holds no money
ClosedUnderDeposit ==
    \E s \in Sessions, t \in Sessions :
        /\ pc[s] = "deposit_txn"
        /\ cache[s][op[s].account_id].balance > 0
        /\ op[t].kind = "close" /\ result[t] = "ok" /\ pc[t] = "idle"
        /\ op[t].account_id = op[s].account_id
        /\ ~accounts[op[s].account_id].is_active
        /\ accounts[op[s].account_id].balance = 0

\* the reasons for which transfer refuses a request on two existing accounts
TransferRejections ==
    {"invalid_amount", "same_account", "inactive", "currency_mismatch",
     "insufficient_funds"}

\* C18: transfer rejects each invalid request with its own distinct error
\* kind, and a rejected transfer leaves both balances and the ledger
\* unchanged: a non-positive amount is refused as invalid amount, equal
\* accounts as same account, and two transfers refused for different reasons
\* reach their callers as different kinds of error.
TransferErrorsDistinct ==
    [][\A s \in Sessions :
          /\ (Calls(s, "transfer") /\ op'[s].amount <= 0)
             => result'[s] = "invalid_amount" /\ pc'[s] = "idle"
          /\ (/\ Calls(s, "transfer") /\ op'[s].amount > 0
              /\ op'[s].account_id = op'[s].to_account_id)
             => result'[s] = "same_account" /\ pc'[s] = "idle"
          /\ (/\ Calls(s, "transfer") \/ pc[s] = "transfer_read"
              /\ pc'[s] = "idle"
              /\ result'[s] \in TransferRejections)
             => /\ accounts' = accounts
                /\ ledger' = ledger
                /\ \A t \in Sessions \ {s} :
                       (/\ op[t].kind = "transfer" /\ pc[t] = "idle"
                        /\ result[t] \in TransferRejections
                        /\ result[t] # result'[s])
                       => ErrorClass(result[t]) # ErrorClass(result'[s])
      ]_vars

\* C19: every successful transfer(from, to, amount) appends exactly two linked
\* rows, a debit on from related to `to` and a credit on to related to `from`,
\* that share one reference number and carry the identical amount: a transfer
\* that has passed its checks returns with these two rows committed.
TransferRowsLinked ==
    [][\A s \in Sessions :
          Leaves(s, "transfer_debit") =>
              LET n == Len(ledger')
              IN  /\ Succeeds(s)
                  /\ n = Len(ledger) + 2
                  /\ SubSeq(ledger', 1, Len(ledger)) = ledger
                  /\ ledger'[n - 1].from_account_id = op[s].account_id
                  /\ ledger'[n - 1].to_account_id = op[s].to_account_id
                  /\ ledger'[n].from_account_id = op[s].account_id
                  /\ ledger'[n].to_account_id = op[s].to_account_id
                  /\ ledger'[n - 1].reference_number = ledger'[n].reference_number
                  /\ ledger'[n - 1].amount = op[s].amount
                  /\ ledger'[n].amount = op[s].amount
      ]_vars

\* C20: reference numbers are unique ledger-wide. A deposit, a withdrawal or a
\* transfer that has passed its checks and supplies a reference the ledger
\* holds fails as a duplicate reference and changes nothing; any other returns
\* with its rows committed under a reference that no earlier row carries.
ReferencesUnique ==
    [][\A s \in Sessions :
          (Leaves(s, "deposit_txn") \/ Leaves(s, "withdraw_txn")
              \/ Leaves(s, "transfer_debit")) =>
              IF \E i \in 1..Len(ledger) : ledger[i].reference_number = op[s].reference
              THEN /\ result'[s] = "duplicate_reference"
                   /\ accounts' = accounts
                   /\ ledger' = ledger
              ELSE /\ Succeeds(s)
                   /\ Len(ledger') > Len(ledger)
                   /\ \A i \in 1..Len(ledger), j \in 1..Len(ledger') :
                         j > Len(ledger) =>
                             ledger'[j].reference_number # ledger[i].reference_number
      ]_vars

\* C21: account numbers are globally unique: after any sequence of
\* createAccount calls, concurrent calls for one owner included, no two
\* accounts share an account number.
AccountNumbersUnique ==
    \A a \in 1..Len(accounts), b \in 1..Len(accounts) :
        a # b => accounts[a].account_number # accounts[b].account_number

\* C21 witness: two createAccount calls for the same existing owner have both
\* ended, and the two accounts of the owner carry different numbers
CreatedForOneOwner ==
    \E s \in Sessions, t \in Sessions :
        /\ s # t /\ Quiescent
        /\ op[s].kind = "create" /\ op[t].kind = "create"
        /\ op[s].user_id \in Users /\ op[t].user_id = op[s].user_id
        /\ op[s].at = "create_rollback" /\ op[t].at = "create_rollback"
        /\ Len(accounts) = 2
        /\ accounts[1].user_id = op[s].user_id /\ accounts[2].user_id = op[s].user_id
        /\ accounts[1].account_number # accounts[2].account_number

\* C22: createAccount with initialBalance > 0 emits exactly one completed
\* deposit transaction on the new account whose amount is initialBalance, with
\* initialBalance == 0 it emits none, and in both cases the new account is
\* active with balance == initialBalance.
CreateEmitsInitialDeposit ==
    [][\A s \in Sessions :
          (Ends(s, "create") /\ op[s].user_id \in Users) =>
              LET n == Len(accounts')
                  m == Len(ledger')
              IN  /\ Succeeds(s)
                  /\ n = Len(accounts) + 1
                  /\ accounts'[n].is_active
                  /\ accounts'[n].balance = op'[s].amount
                  /\ SubSeq(ledger', 1, Len(ledger)) = ledger
                  /\ IF op'[s].amount > 0
                     THEN /\ m = Len(ledger) + 1
                          /\ ledger'[m].transaction_type = "deposit"
                          /\ ledger'[m].status = "completed"
                          /\ ledger'[m].to_account_id = n
                          /\ ledger'[m].amount = op'[s].amount
                     ELSE m = Len(ledger)
      ]_vars

ScenarioYields ==
    [][\A s \in Sessions :
          /\ (Ends(s, "create") /\ op[s].user_id \in Users)
                => /\ Succeeds(s)
                   /\ Len(accounts') = Len(accounts) + 1
                   /\ accounts'[Len(accounts')].balance = op'[s].amount
                   /\ Len(ledger') = Len(ledger) + (IF op'[s].amount > 0 THEN 1 ELSE 0)
          /\ Leaves(s, "deposit_txn")
                => /\ Succeeds(s)
                   /\ accounts'[op[s].account_id].balance
                          = accounts[op[s].account_id].balance + op[s].amount
          /\ Leaves(s, "withdraw_txn")
                => /\ Succeeds(s)
                   /\ accounts'[op[s].account_id].balance
                          = accounts[op[s].account_id].balance - op[s].amount
          /\ Leaves(s, "transfer_debit")
                => /\ Succeeds(s)
                   /\ accounts'[op[s].account_id].balance
                          = accounts[op[s].account_id].balance - op[s].amount
                   /\ accounts'[op[s].to_account_id].balance
                          = accounts[op[s].to_account_id].balance + op[s].amount
                   /\ Len(ledger') = Len(ledger) + 2
                   /\ ledger'[Len(ledger')].reference_number
                          = ledger'[Len(ledger') - 1].reference_number
      ]_vars

\* the statuses after which a row does not change (TransactionStatus)
TerminalStatuses == {"completed", "failed", "cancelled"}

\* C25: transaction status follows pending -> completed or pending -> failed
\* only. Through every step of every call each row stays in the table, a row
\* whose status is completed, failed or cancelled keeps that status, a
\* pending row stays pending or becomes completed or failed, and the balance
\* of the account of a failed row counts none of its amount: it is the sum of
\* the completed rows alone.
StatusIsTerminal ==
    [][\A i \in 1..Len(ledger) :
          /\ i <= Len(ledger')
          /\ ledger[i].status \in TerminalStatuses =>
                 ledger'[i].status = ledger[i].status
          /\ ledger[i].status = "pending" =>
                 ledger'[i].status \in {"pending", "completed", "failed"}
          /\ ledger'[i].status = "failed" =>
                 \A a \in {ledger'[i].from_account_id, ledger'[i].to_account_id} :
                     a \in 1..Len(accounts') =>
                         accounts'[a].balance = Credits(ledger', a) - Debits(ledger', a)
      ]_vars

\* C25 witness: account 1 has a pending, a failed, a cancelled and a completed
\* row; a withdrawal from it failed after it had passed its checks, and the
\* rows are as they were
StatusesKeptThroughFailure ==
    \E s \in Sessions :
        /\ op[s].kind = "withdraw" /\ op[s].account_id = 1
        /\ op[s].at = "withdraw_txn" /\ result[s] = "fault" /\ pc[s] = "idle"
        /\ ledger = Backing(accounts, Len(accounts))
        /\ \A status \in TerminalStatuses \cup {"pending"} :
               \E i \in 1..Len(ledger) :
                   /\ ledger[i].status = status
                   /\ 1 \in {ledger[i].from_account_id, ledger[i].to_account_id}
        /\ accounts[1].balance = Credits(ledger, 1) - Debits(ledger, 1)

\* C26: the ledger is append-only: every committed row stays where it is, as
\* it is (accounts, type, amount, status, reference number), through every step
\* of every call; the table only grows.
LedgerAppendOnly ==
    [][/\ Len(ledger') >= Len(ledger)
       /\ SubSeq(ledger', 1, Len(ledger)) = ledger
      ]_vars

\* C26 witness: an account was closed, and the rows that paid into it and out
\* of it are still in the table
ClosedAccountKeepsRows ==
    \E s \in Sessions :
        /\ op[s].kind = "close" /\ result[s] = "ok" /\ pc[s] = "idle"
        /\ ~accounts[op[s].account_id].is_active
        /\ \E i \in 1..Len(ledger), j \in 1..Len(ledger) :
              /\ ledger[i].to_account_id = op[s].account_id
              /\ ledger[j].from_account_id = op[s].account_id

\* C27: the currency of an account never changes after creation, through any
\* step of any call, and a transfer goes on to change two balances only
\* between two accounts of the same currency.
CurrencyImmutable ==
    [][/\ \A a \in 1..Len(accounts) :
             /\ a <= Len(accounts')
             /\ accounts'[a].currency = accounts[a].currency
       /\ \A s \in Sessions :
             (pc[s] = "transfer_read" /\ pc'[s] = "transfer_debit") =>
                 accounts[op[s].account_id].currency
                     = accounts[op[s].to_account_id].currency
      ]_vars

\* C27 witness: a transfer between a funded account and an active account of
\* another currency was refused as a currency mismatch
CrossCurrencyRefused ==
    \E s \in Sessions :
        /\ op[s].kind = "transfer" /\ result[s] = "currency_mismatch"
        /\ pc[s] = "idle" /\ op[s].at = "transfer_read"
        /\ accounts[op[s].account_id].currency # accounts[op[s].to_account_id].currency
        /\ accounts[op[s].account_id].balance >= op[s].amount
        /\ accounts[op[s].to_account_id].is_active

\* C28: every transaction row has amount > 0: a deposit, withdrawal or
\* transfer called with amount <= 0 fails with InvalidAmountError, changes no
\* balance, in the store or in the session, and appends no row.
AmountsPositive ==
    [][/\ \A i \in 1..Len(ledger') : ledger'[i].amount > 0
       /\ \A s \in Sessions :
             (/\ Calls(s, "deposit") \/ Calls(s, "withdraw") \/ Calls(s, "transfer")
              /\ op'[s].amount <= 0)
             => /\ result'[s] = "invalid_amount"
                /\ ErrorClass(result'[s]) = "InvalidAmountError"
                /\ pc'[s] = "idle"
                /\ accounts' = accounts
                /\ ledger' = ledger
                /\ cache' = cache
      ]_vars

\* C29: the summary of an account never diverges from its stored balance: a
\* get_account_summary of an account that exists returns its figures (the
\* balance, the completed deposits and withdrawals, the count), all read from
\* one state of the store.
SummaryConsistent ==
    [][\A s \in Sessions :
          (Calls(s, "summary") /\ Exists(op'[s].account_id)) =>
              /\ result'[s] = "ok"
              /\ cache'[s][op'[s].account_id].loaded =>
                     cache'[s][op'[s].account_id].balance
                         = accounts[op'[s].account_id].balance
      ]_vars

\* C30: get_transaction_history returns only rows of the account that match
\* the filters, newest first, skipping offset rows and returning at most limit
\* rows: a call for an account returns such a page.
HistoryIsPage ==
    [][\A s \in Sessions :
          Calls(s, "history") => /\ result'[s] = "ok"
                                 /\ pc'[s] = "idle"
                                 /\ ledger' = ledger
      ]_vars

\* C31: every appended row stores the balance after the operation: a deposit
\* or a withdrawal that has passed its checks returns with one more row,
\* whose balance_after is the new stored balance of the account.
BalanceSnapshots ==
    [][\A s \in Sessions :
          (Leaves(s, "deposit_txn") \/ Leaves(s, "withdraw_txn")) =>
              LET n == Len(ledger')
                  a == op[s].account_id
              IN  /\ Succeeds(s)
                  /\ n = Len(ledger) + 1
                  /\ "balance_after" \in DOMAIN ledger'[n]
                  /\ ledger'[n].balance_after = accounts'[a].balance
      ]_vars

\* C32: every transaction row carries a reference number: a transfer called
\* without a reference that has passed its checks returns with two rows that
\* share one generated reference number, which is not empty and which no
\* earlier row carries.
ReferenceGenerated ==
    [][\A s \in Sessions :
          (Leaves(s, "transfer_debit") /\ op[s].reference = NoRef) =>
              LET n == Len(ledger')
              IN  /\ Succeeds(s)
                  /\ n = Len(ledger) + 2
                  /\ ledger'[n].reference_number = ledger'[n - 1].reference_number
                  /\ ledger'[n].reference_number # NoRef
                  /\ \A i \in 1..Len(ledger) :
                        ledger[i].reference_number # ledger'[n].reference_number
      ]_vars

\* C33: a deposit that has passed its checks returns with the balance of its
\* account raised by exactly the amount and exactly one completed deposit row
\* of that amount on the account appended, every other account as it was; a
\* withdrawal does the same with the balance lowered and a withdrawal row.
DepositWithdrawEffect ==
    [][\A s \in Sessions :
          LET a == op[s].account_id
              n == Len(ledger')
              others == \A b \in 1..Len(accounts) : b # a => accounts'[b] = accounts[b]
          IN  /\ Leaves(s, "deposit_txn") =>
                    /\ Succeeds(s)
                    /\ accounts'[a].balance = accounts[a].balance + op[s].amount
                    /\ n = Len(ledger) + 1
                    /\ SubSeq(ledger', 1, Len(ledger)) = ledger
                    /\ ledger'[n].transaction_type = "deposit"
                    /\ ledger'[n].status = "completed"
                    /\ ledger'[n].amount = op[s].amount
                    /\ others
              /\ Leaves(s, "withdraw_txn") =>
                    /\ Succeeds(s)
                    /\ accounts'[a].balance = accounts[a].balance - op[s].amount
                    /\ n = Len(ledger) + 1
                    /\ SubSeq(ledger', 1, Len(ledger)) = ledger
                    /\ ledger'[n].transaction_type = "withdrawal"
                    /\ ledger'[n].status = "completed"
                    /\ ledger'[n].amount = op[s].amount
                    /\ others
      ]_vars

\* C34: reactivate_account clears the inactive flag: the commit of a
\* reactivation leaves the account active in the store, whether it was closed
\* before or active already, and a deposit or a withdrawal on an account that
\* is active in the store is not refused as inactive.
ReactivateReopens ==
    [][\A s \in Sessions :
          /\ (pc[s] = "reactivate_commit" /\ pc'[s] = "reactivate_refresh")
                => accounts'[op[s].account_id].is_active
          /\ (/\ Calls(s, "deposit") \/ Calls(s, "withdraw")
              /\ Exists(op'[s].account_id)
              /\ accounts[op'[s].account_id].is_active)
                => ~(pc'[s] = "idle" /\ result'[s] = "inactive")
      ]_vars

\* the steps of close_account and reactivate_account in session s
ClosingOrReactivating(s) ==
    \/ Calls(s, "close") \/ Calls(s, "reactivate")
    \/ /\ pc[s] \in TryPcs
       /\ pc'[s] # pc[s]

\* C35: close_account and reactivate_account change only the active flag and
\* updated_at of the account they name. No step of either call, whatever its
\* outcome, changes a balance, changes, removes or adds a transaction row,
\* adds or removes an account, or changes another account.
LifecycleTouchesFlagOnly ==
    [][\A s \in Sessions :
          ClosingOrReactivating(s) =>
              /\ Len(accounts') = Len(accounts)
              /\ \A b \in 1..Len(accounts) :
                    /\ accounts'[b].balance = accounts[b].balance
                    /\ accounts'[b] # accounts[b] =>
                          /\ b = op'[s].account_id
                          /\ accounts'[b] = [accounts[b] EXCEPT
                                                !.is_active = accounts'[b].is_active,
                                                !.updated_at = accounts'[b].updated_at]
              /\ ledger' = ledger
      ]_vars

\* C35 witness: one session closed the empty account 1 and another reactivated
\* the funded account 2; both rows carry a new updated_at, and account 2 has
\* the balance and the table the rows it had
ReopenedWithBalance ==
    \E s \in Sessions, t \in Sessions :
        /\ op[s].kind = "reactivate" /\ result[s] = "ok"
        /\ op[s].at = "reactivate_refresh" /\ op[s].account_id = 2
        /\ op[t].kind = "close" /\ result[t] = "ok" /\ op[t].at = "close_refresh"
        /\ op[t].account_id = 1
        /\ ~accounts[1].is_active /\ accounts[2].is_active
        /\ accounts[1].updated_at > 0 /\ accounts[2].updated_at > 0
        /\ accounts[2].balance = SeedBalance
        /\ ledger = Backing(accounts, Len(accounts))

\* the committed row of account a as a SELECT gives it, None for an unknown id
CommittedRow(a) == IF Exists(a) THEN Load(a) ELSE Unloaded

\* the first rule, in the order of lines 341-377, that a transfer request
\* breaks when its source row reads from_account and its destination is the
\* committed row, or "ok" when it breaks none
FirstBroken(from_account, from, to, amount) ==
    IF amount <= 0 THEN "invalid_amount"
    ELSE IF from = to THEN "same_account"
    ELSE IF ~from_account.loaded THEN "not_found"
    ELSE IF ~Exists(to) THEN "not_found"
    ELSE IF ~from_account.is_active THEN "inactive"
    ELSE IF ~accounts[to].is_active THEN "inactive"
    ELSE IF accounts[from].currency # accounts[to].currency THEN "currency_mismatch"
    ELSE IF from_account.balance < amount THEN "insufficient_funds"
    ELSE "ok"

\* C36: the error a transfer reports is fixed by one check order (amount, same
\* account, source found, destination found, source active, destination
\* active, currency, funds), so the outcome of the checks is a function of the
\* request and the committed state: a transfer reads its source as the
\* committed row, and the step that ends its checks refuses it with the first
\* rule broken by that source row and the committed destination row, and lets
\* it pass when none is broken.
TransferOutcomeByOrder ==
    [][\A s \in Sessions :
          /\ (Calls(s, "transfer") /\ pc'[s] = "idle")
                => result'[s] = FirstBroken(CommittedRow(op'[s].account_id),
                                            op'[s].account_id, op'[s].to_account_id,
                                            op'[s].amount)
          /\ (Calls(s, "transfer") /\ pc'[s] = "transfer_read")
                => cache'[s][op'[s].account_id] = CommittedRow(op'[s].account_id)
          /\ (pc[s] = "transfer_read" /\ pc'[s] # "transfer_read")
                => (IF pc'[s] = "transfer_debit" THEN "ok" ELSE result'[s])
                       = FirstBroken(cache[s][op[s].account_id], op[s].account_id,
                                     op[s].to_account_id, op[s].amount)
      ]_vars

\* C37: the funds check is strict. A withdrawal or a transfer of exactly the
\* balance of its account passes the check, returns, and leaves the account
\* with balance 0 in the store, where close_account accepts it.
FullBalanceAccepted ==
    [][\A s \in Sessions :
          LET a == op'[s].account_id
              account == Query(s, a)
          IN  /\ (/\ Calls(s, "withdraw")
                  /\ account.loaded /\ account.is_active
                  /\ op'[s].amount > 0 /\ op'[s].amount = account.balance)
                 => pc'[s] = "withdraw_txn"
              /\ (/\ Leaves(s, "withdraw_txn") \/ Leaves(s, "transfer_debit")
                  /\ op[s].amount = accounts[op[s].account_id].balance)
                 => /\ Succeeds(s)
                    /\ accounts'[op[s].account_id].balance = 0
      ]_vars

\* the call made in the step is refused as not found and writes nothing
RefusedNotFound(s) ==
    /\ result'[s] = "not_found"
    /\ pc'[s] = "idle"
    /\ accounts' = accounts
    /\ ledger' = ledger

====
